---- MODULE Spec2Model ----
(***************************************************************************)
(* Model of the two example programs of the repository:                   *)
(*   examples/cpp-3rdparty/main.cpp    the gflags demo (one int32 flag x)  *)
(*   examples/bazel/function-test.cpp  the gtest binary testing fn()       *)
(* A behaviour is one run of one of the two programs.  Texts (arguments,   *)
(* environment values, standard output) are sequences of one-character     *)
(* strings, so that parsing and printing are computed character by         *)
(* character.                                                              *)
(***************************************************************************)
EXTENDS Integers, Sequences, FiniteSets, TLC

VARIABLES
  program,     \* which binary this run executes: "main" or "function-test"
  commandLine, \* main.cpp: the command line the process was started with
  argv,        \* main.cpp: the argument vector (argv[1] is the program name)
  environ,     \* main.cpp: the process environment (name -> text)
  pc,          \* main.cpp: position in main
  usage,       \* main.cpp: the usage message held by the flag library
  FLAGS_x,     \* main.cpp: the flag variable defined by DEFINE_int32
  stdout,      \* main.cpp: characters written to standard output so far
  exitStatus,  \* main.cpp: process exit status, NoStatus while running
  impl,        \* function-test.cpp: the value the linked fn() returns
  tpc,         \* function-test.cpp: position in main / the test body
  returned,    \* function-test.cpp: values returned by the calls of fn() so far
  actual,      \* function-test.cpp: the value of fn() inside EXPECT_EQ
  passed,      \* function-test.cpp: assertions that passed
  failed,      \* function-test.cpp: assertions that failed
  runResult,   \* function-test.cpp: what RUN_ALL_TESTS() returned
  texit        \* function-test.cpp: process exit status, NoStatus while running

vars == <<program, commandLine, argv, environ, pc, usage, FLAGS_x, stdout, exitStatus,
          impl, tpc, returned, actual, passed, failed, runResult, texit>>

demoVars == <<commandLine, argv, environ, pc, usage, FLAGS_x, stdout, exitStatus>>
testVars == <<impl, tpc, returned, actual, passed, failed, runResult, texit>>

\* the exit status of a process that has not exited (no status is negative)
NoStatus == 0 - 1

----------------------------------------------------------------------------
(* Bounds of the model.                                                    *)

\* longest command line (arguments after the program name) drawn freely
MaxArgs == 3
\* most calls of fn() made by a run of the test binary's process
MaxCalls == 3

----------------------------------------------------------------------------
(* int32 and its decimal text.                                             *)

INT32_MAX == 2147483647
INT32_MIN == -INT32_MAX - 1

Digits == <<"0", "1", "2", "3", "4", "5", "6", "7", "8", "9">>

IsDigit(c) == \E i \in 1..10 : Digits[i] = c

DigitValue(c) == (CHOOSE i \in 1..10 : Digits[i] = c) - 1

\* operator<<(std::ostream&, int): the decimal digits of a value n <= 0,
\* most significant first, without sign (no digit for 0).
RECURSIVE NegDigits(_)
NegDigits(n) ==
  IF n = 0 THEN <<>>
  ELSE LET m == n % 10
           q == IF m = 0 THEN n \div 10 ELSE (n \div 10) + 1
           d == IF m = 0 THEN 0 ELSE 10 - m
       IN  Append(NegDigits(q), Digits[d + 1])

\* Faulty variant of FormatInt: the sign of a negative value is dropped.
FormatInt_NoSign(v) ==
  IF v = 0 THEN <<"0">>
  ELSE NegDigits(IF v < 0 THEN v ELSE -v)

\* std::cout << FLAGS_x : the text written for an int32 value.
FormatInt(v) ==
  IF v = 0 THEN <<"0">>
  ELSE IF v < 0 THEN <<"-">> \o NegDigits(v)
  ELSE NegDigits(-v)

\* strtoll over a run of decimal digits.  The magnitude is accumulated as a
\* value <= 0 so that INT32_MIN is reachable; a result > 0 stands for a
\* magnitude that left the int32 range.
RECURSIVE AccumulateDigits(_, _)
AccumulateDigits(s, acc) ==
  IF s = <<>> \/ acc > 0 THEN acc
  ELSE LET d == DigitValue(Head(s))
       IN  IF acc < (INT32_MIN + d + 9) \div 10
           THEN 1
           ELSE AccumulateDigits(Tail(s), acc * 10 - d)

\* The flag library's conversion of a value text to int32: an optional sign,
\* then decimal digits, the whole text consumed, the result within int32.
\* (The value texts of the modelled command lines are decimal; the library's
\* "0x" notation is not among them and converts to nothing here.)
ParseInt32(s) ==
  LET neg  == s # <<>> /\ Head(s) = "-"
      body == IF s # <<>> /\ Head(s) \in {"-", "+"} THEN Tail(s) ELSE s
      ok   == body # <<>> /\ \A i \in 1..Len(body) : IsDigit(body[i])
      acc  == IF ok THEN AccumulateDigits(body, 0) ELSE 1
  IN  IF ~ok \/ acc > 0 THEN [ok |-> FALSE, value |-> 0]
      ELSE IF neg THEN [ok |-> TRUE, value |-> acc]
      ELSE IF acc = INT32_MIN THEN [ok |-> FALSE, value |-> 0]
      ELSE [ok |-> TRUE, value |-> -acc]

----------------------------------------------------------------------------
(* gflags::ParseCommandLineFlags(&argc, &argv, false), as main.cpp calls   *)
(* it: the flags known to the binary are x (DEFINE_int32) and the          *)
(* library's own --fromenv.  argv[1] is the program name.                  *)

FlagName_x == <<"x">>
FlagName_fromenv == <<"f", "r", "o", "m", "e", "n", "v">>
EnvName_x == "FLAGS_x"

\* position of the first "=" of a text, 0 when it has none
EqualsAt(s) ==
  IF \E i \in 1..Len(s) : s[i] = "="
  THEN CHOOSE i \in 1..Len(s) : s[i] = "=" /\ \A j \in 1..(i - 1) : s[j] # "="
  ELSE 0

\* an argument that starts with "-" and is longer than "-" is a flag
IsFlagArg(arg) == Len(arg) >= 2 /\ arg[1] = "-"

\* the argument without its leading "-" or "--"
StripDashes(arg) ==
  IF Len(arg) >= 2 /\ arg[2] = "-" THEN SubSeq(arg, 3, Len(arg))
  ELSE SubSeq(arg, 2, Len(arg))

\* SplitArgument: "key=value" or "key" alone
SplitArgument(s) ==
  LET e == EqualsAt(s)
  IN  IF e = 0 THEN [key |-> s, hasValue |-> FALSE, value |-> <<>>]
      ELSE [key |-> SubSeq(s, 1, e - 1), hasValue |-> TRUE,
            value |-> SubSeq(s, e + 1, Len(s))]

\* Setting flag x from a value text: a text that does not convert is an error.
SetFlag_x(st, text) ==
  LET r == ParseInt32(text)
  IN  IF r.ok THEN [st EXCEPT !.x = r.value]
      ELSE [st EXCEPT !.error = TRUE]

\* --fromenv=<flag>: the flag is set from the environment variable
\* FLAGS_<flag>; an unknown flag or an unset variable is an error.
ProcessFromenv(st, env, name) ==
  IF name # FlagName_x THEN [st EXCEPT !.error = TRUE]
  ELSE IF EnvName_x \notin DOMAIN env THEN [st EXCEPT !.error = TRUE]
  ELSE SetFlag_x(st, env[EnvName_x])

ProcessSingleOption(st, env, key, text) ==
  IF key = FlagName_x THEN SetFlag_x(st, text)
  ELSE ProcessFromenv(st, env, text)

IsKnownFlag(key) == key \in {FlagName_x, FlagName_fromenv}

\* the argument at position i goes last, the others move up
MoveToEnd(av, i) ==
  SubSeq(av, 1, i - 1) \o SubSeq(av, i + 1, Len(av)) \o <<av[i]>>

\* The parsing loop.  st = [argv, i, first_nonopt, x, error]: arguments that
\* are no flags are permuted to the end, "--" ends the flags, a flag without
\* "=value" takes the next argument as its value.
RECURSIVE ParseLoop(_, _)
ParseLoop(st, env) ==
  IF st.i >= st.first_nonopt THEN st
  ELSE
    LET arg == st.argv[st.i]
    IN  IF ~IsFlagArg(arg)
        THEN ParseLoop([st EXCEPT !.argv = MoveToEnd(st.argv, st.i),
                                  !.first_nonopt = st.first_nonopt - 1], env)
        ELSE
          LET body == StripDashes(arg)
              sp   == SplitArgument(body)
          IN  IF body = <<>> THEN [st EXCEPT !.first_nonopt = st.i + 1]
              ELSE IF ~IsKnownFlag(sp.key)
              THEN ParseLoop([st EXCEPT !.error = TRUE, !.i = st.i + 1], env)
              ELSE IF sp.hasValue
              THEN ParseLoop(
                     [ProcessSingleOption(st, env, sp.key, sp.value)
                        EXCEPT !.i = st.i + 1], env)
              ELSE IF st.i + 1 >= st.first_nonopt
              THEN [st EXCEPT !.error = TRUE]
              ELSE ParseLoop(
                     [ProcessSingleOption(st, env, sp.key, st.argv[st.i + 1])
                        EXCEPT !.i = st.i + 2], env)

\* Faulty variant of ParseCommandLineFlags: a set FLAGS_x of the environment
\* replaces the default before the command line is read.
ParseCommandLineFlags_EnvFirst(av, env, x) ==
  LET st0 == [argv |-> av, i |-> 2, first_nonopt |-> Len(av) + 1,
              x |-> x, error |-> FALSE]
  IN  ParseLoop(IF EnvName_x \in DOMAIN env
                THEN ProcessFromenv(st0, env, FlagName_x) ELSE st0, env)

\* The whole call: the loop from the first argument, with x at its current
\* value.  The result's argv is the permuted vector, first_nonopt the index
\* the call returns, error whether the library reports errors and exits.
ParseCommandLineFlags(av, env, x) ==
  ParseLoop([argv |-> av, i |-> 2, first_nonopt |-> Len(av) + 1,
             x |-> x, error |-> FALSE], env)


----------------------------------------------------------------------------
(* The command lines and environments a run of main.cpp is started with.   *)

ProgramNames == {<<"m", "a", "i", "n">>, <<".", "/", "m", "a", "i", "n">>}

Arg_x == <<"-", "-", "x">>
Endl == <<"\n">>

\* int32 values with their decimal text as typed on a command line
SampleInt32 ==
  { [value |-> 0, text |-> <<"0">>],
    [value |-> 1, text |-> <<"1">>],
    [value |-> -1, text |-> <<"-", "1">>],
    [value |-> 2, text |-> <<"2">>],
    [value |-> 10, text |-> <<"1", "0">>],
    [value |-> 100, text |-> <<"1", "0", "0">>],
    [value |-> -100, text |-> <<"-", "1", "0", "0">>],
    [value |-> 2147483647, text |-> <<"2", "1", "4", "7", "4", "8", "3", "6", "4", "7">>],
    [value |-> INT32_MIN, text |-> <<"-", "2", "1", "4", "7", "4", "8", "3", "6", "4", "8">>] }

Tokens ==
  { Arg_x, <<"-", "x", "=", "3">>, <<"2">>, <<"-", "2", "1", "4", "7", "4", "8", "3", "6", "4", "8">>,
    <<"2", "1", "4", "7", "4", "8", "3", "6", "4", "7">>, <<"2", "1", "4", "7", "4", "8", "3", "6", "4", "8">>, <<"2", "a">>,
    <<"f", "o", "o">>, <<"-", "-">>, <<"-", "-", "f", "r", "o", "m", "e", "n", "v", "=", "x">>, <<"-", "-", "y">> }

ArgLists == UNION { [1..k -> Tokens] : k \in 0..MaxArgs }

CommandLines ==
  { <<p>> \o a : p \in ProgramNames, a \in ArgLists }
  \cup { <<p, Arg_x, s.text>> : p \in ProgramNames, s \in SampleInt32 }

NoEnvironment == [n \in {} |-> <<>>]

Environments == { NoEnvironment, [n \in {EnvName_x} |-> <<"7">>] }

----------------------------------------------------------------------------
(* examples/cpp-3rdparty/main.cpp                                          *)

\* Faulty variant of Default_x: the flag defined with default 0.
Default_x_Zero == 1 - 1

\* DEFINE_int32(x, 1, ""): the default value of flag x
Default_x == 1

\* Faulty variant of CoutLine: the value is written twice.
CoutLine_Twice(x) == FormatInt(x) \o Endl \o FormatInt(x) \o Endl

\* std::cout << FLAGS_x << std::endl
CoutLine(x) == FormatInt(x) \o Endl

\* Faulty variant of MainStatus: main returns a failure status.
MainStatus_Failure == 0 + 1

\* main falls off its end: the process exits with status 0
MainStatus == 0

\* the flag library reports errors and calls exit(1)
LibraryExitStatus == 1

SetUsageMessage ==
  /\ program = "main"
  /\ pc = "start"
  /\ usage' = "hello"
  /\ pc' = "usage"
  /\ UNCHANGED <<program, commandLine, argv, environ, FLAGS_x, stdout, exitStatus, testVars>>

ParseCall ==
  /\ program = "main"
  /\ pc = "usage"
  /\ LET r == ParseCommandLineFlags(argv, environ, FLAGS_x)
     IN  /\ argv' = r.argv
         /\ FLAGS_x' = r.x
         /\ IF r.error
            THEN pc' = "exited" /\ exitStatus' = LibraryExitStatus
            ELSE pc' = "parsed" /\ exitStatus' = exitStatus
  /\ UNCHANGED <<program, commandLine, environ, usage, stdout, testVars>>

\* Faulty variant of PrintFlag: an error branch of main's own, which refuses
\* a negative value instead of printing it.
PrintFlag_Checked ==
  /\ program = "main"
  /\ pc = "parsed"
  /\ IF FLAGS_x < 0
     THEN stdout' = stdout /\ pc' = "exited" /\ exitStatus' = LibraryExitStatus
     ELSE stdout' = stdout \o CoutLine(FLAGS_x) /\ pc' = "printed"
            /\ exitStatus' = exitStatus
  /\ UNCHANGED <<program, commandLine, argv, environ, usage, FLAGS_x, testVars>>

PrintFlag ==
  /\ program = "main"
  /\ pc = "parsed"
  /\ stdout' = stdout \o CoutLine(FLAGS_x)
  /\ pc' = "printed"
  /\ UNCHANGED <<program, commandLine, argv, environ, usage, FLAGS_x, exitStatus, testVars>>

MainReturn ==
  /\ program = "main"
  /\ pc = "printed"
  /\ exitStatus' = MainStatus
  /\ pc' = "exited"
  /\ UNCHANGED <<program, commandLine, argv, environ, usage, FLAGS_x, stdout, testVars>>

DemoNext == SetUsageMessage \/ ParseCall \/ PrintFlag \/ MainReturn

----------------------------------------------------------------------------
(* examples/bazel/function-test.cpp and the function under test            *)

\* Faulty variant of fn: another constant.
fn_Other == 100 + 1

\* fn() of function.hpp: no inputs, returns a fixed integer constant
fn == 100

\* EXPECT_EQ(100, fn()): the expected value
Expected == 100

\* Faulty variant of EXPECT_EQ: the comparison inverted.
EXPECT_EQ_Inverted(expected, val) == expected # val

EXPECT_EQ(expected, val) == expected = val

\* RUN_ALL_TESTS(): 0 when every test passed, 1 otherwise
RUN_ALL_TESTS(nfailed) == IF nfailed = 0 THEN 0 ELSE 1

\* Faulty variant of TestMainStatus: main ignores the result and returns 0.
TestMainStatus_Ignored(r) == r - r

\* return RUN_ALL_TESTS();
TestMainStatus(r) == r

InitGoogleTest ==
  /\ program = "function-test"
  /\ tpc = "start"
  /\ tpc' = "inited"
  /\ UNCHANGED <<program, demoVars, impl, returned, actual, passed, failed,
                 runResult, texit>>

\* TEST(Fn, Basic), first half: the call fn()
TestCallFn ==
  /\ program = "function-test"
  /\ tpc = "inited"
  /\ actual' = impl
  /\ returned' = Append(returned, impl)
  /\ tpc' = "called"
  /\ UNCHANGED <<program, demoVars, impl, passed, failed, runResult, texit>>

\* TEST(Fn, Basic), second half: the comparison with 100
TestExpect ==
  /\ program = "function-test"
  /\ tpc = "called"
  /\ IF EXPECT_EQ(Expected, actual)
     THEN passed' = passed + 1 /\ failed' = failed
     ELSE passed' = passed /\ failed' = failed + 1
  /\ tpc' = "asserted"
  /\ UNCHANGED <<program, demoVars, impl, returned, actual, runResult, texit>>

RunAllTestsReturn ==
  /\ program = "function-test"
  /\ tpc = "asserted"
  /\ runResult' = RUN_ALL_TESTS(failed)
  /\ tpc' = "ran"
  /\ UNCHANGED <<program, demoVars, impl, returned, actual, passed, failed, texit>>

TestMainReturn ==
  /\ program = "function-test"
  /\ tpc = "ran"
  /\ texit' = TestMainStatus(runResult)
  /\ tpc' = "exited"
  /\ UNCHANGED <<program, demoVars, impl, returned, actual, passed, failed,
                 runResult>>

\* any other caller of fn(): one more invocation
CallFn ==
  /\ program = "fn-caller"
  /\ Len(returned) < MaxCalls
  /\ returned' = Append(returned, impl)
  /\ UNCHANGED <<program, demoVars, impl, tpc, actual, passed, failed,
                 runResult, texit>>

TestNext ==
  InitGoogleTest \/ TestCallFn \/ TestExpect \/ RunAllTestsReturn
    \/ TestMainReturn

----------------------------------------------------------------------------
(* Specifications.                                                         *)

InitDemo ==
  /\ pc = "start"
  /\ usage = ""
  /\ FLAGS_x = Default_x
  /\ stdout = <<>>
  /\ exitStatus = NoStatus

InitTest ==
  /\ tpc = "start"
  /\ returned = <<>>
  /\ actual = 0
  /\ passed = 0
  /\ failed = 0
  /\ runResult = 0
  /\ texit = NoStatus

\* Before a process is started.  The binaries are those built from the
\* repository: fn() is the repository's fn.
Init ==
  /\ program = "none"
  /\ commandLine = <<>>
  /\ argv = <<>>
  /\ environ = NoEnvironment
  /\ impl = fn
  /\ InitDemo
  /\ InitTest

\* the test binary linked against any implementation of fn()
InitAnyFn ==
  /\ program = "none"
  /\ commandLine = <<>>
  /\ argv = <<>>
  /\ environ = NoEnvironment
  /\ impl \in {fn - 1, fn, fn + 1}
  /\ InitDemo
  /\ InitTest

\* A process is started: main with a command line and an environment, or
\* the test binary (its one argument the program name), or a caller of fn().
Exec ==
  /\ program = "none"
  /\ \/ /\ program' = "main"
        /\ commandLine' \in CommandLines
        /\ environ' \in Environments
     \/ /\ program' \in {"function-test", "fn-caller"}
        /\ UNCHANGED <<commandLine, environ>>
  /\ argv' = commandLine'
  /\ UNCHANGED <<pc, usage, FLAGS_x, stdout, exitStatus, testVars>>

Next == Exec \/ DemoNext \/ TestNext \/ CallFn

Spec == Init /\ [][Next]_vars

SpecAnyFn == InitAnyFn /\ [][Next]_vars

\* A started main.cpp or function-test.cpp process runs to completion: it is
\* single-threaded and never waits.  Nothing obliges a process to be started
\* or another caller to call fn() again.  The last conjunct is
\* WF_vars(ParseCall) with ENABLED <<ParseCall>>_vars written out: the call
\* is enabled exactly where main stands before it.
FairSpec ==
  /\ Init /\ [][Next]_vars
  /\ WF_vars(SetUsageMessage) /\ WF_vars(PrintFlag) /\ WF_vars(MainReturn)
  /\ WF_vars(TestNext)
  /\ ([]<>~(program = "main" /\ pc = "usage") \/ []<><<ParseCall>>_vars)

----------------------------------------------------------------------------
(* Properties.                                                             *)

\* number of lines written: one per newline character
LineCount(out) == Cardinality({ i \in 1..Len(out) : out[i] = "\n" })

\* the flag arguments of a command line: what the parsing permutes to the
\* front, up to the index it returns
FlagPart(av) ==
  LET r == ParseCommandLineFlags(av, NoEnvironment, Default_x)
  IN  SubSeq(r.argv, 2, r.first_nonopt - 1)

\* no argument names the flag library's own flag --fromenv
NoLibraryFlags(av) ==
  \A i \in 2..Len(av) :
    ~(IsFlagArg(av[i])
        /\ SplitArgument(StripDashes(av[i])).key = FlagName_fromenv)

\* standard output of a whole run of main.cpp started with av and env
MainOutput(av, env) ==
  LET r == ParseCommandLineFlags(av, env, Default_x)
  IN  IF r.error THEN <<>> ELSE CoutLine(r.x)

\* a finished run printed what the runs with the same flag arguments print
\* under every program name and environment, without non-flag arguments
SameAsFlagPartRuns ==
  \A p \in ProgramNames, e \in Environments :
    stdout = MainOutput(<<p>> \o FlagPart(commandLine), e)

\* C1: every invocation of fn() returns exactly 100, however many
\* invocations came before it.
C1_FnReturns100 ==
  \A i \in 1..Len(returned) : returned[i] = 100

C1_Witness ==
  /\ program = "fn-caller"
  /\ Len(returned) >= 2
  /\ returned[Len(returned)] = 100

\* C2: a run started as `--x v`, v an int32 value in decimal, has printed
\* exactly the decimal text of v (and a newline) when it has exited.
C2_PrintsSuppliedValue ==
  \A s \in SampleInt32 :
    (program = "main" /\ pc = "exited" /\ Len(commandLine) = 3
       /\ commandLine[2] = Arg_x /\ commandLine[3] = s.text)
    => (stdout = s.text \o Endl /\ FLAGS_x = s.value)

C2_Witness ==
  /\ program = "main" /\ pc = "exited" /\ Len(commandLine) = 3
  /\ commandLine[2] = Arg_x
  /\ FLAGS_x = INT32_MIN
  /\ stdout = <<"-", "2", "1", "4", "7", "4", "8", "3", "6", "4", "8", "\n">>

\* C3: a run started with no arguments has printed 1, the default declared
\* for flag x, when it has exited.
C3_NoArgumentsPrintsDefault ==
  (program = "main" /\ pc = "exited" /\ Len(commandLine) = 1)
  => stdout = <<"1", "\n">>

C3_Witness ==
  /\ program = "main" /\ pc = "exited" /\ Len(commandLine) = 1
  /\ environ # NoEnvironment
  /\ stdout = <<"1", "\n">>

\* C4: once the parsing call has returned to main, the run eventually exits
\* with status 0, its standard output being the flag's value and a newline.
C4_SuccessEndsWithStatus0 ==
  (program = "main" /\ pc = "parsed")
    ~> (pc = "exited" /\ exitStatus = 0 /\ stdout = FormatInt(FLAGS_x) \o Endl)

C4_Witness ==
  /\ program = "main" /\ pc = "exited" /\ exitStatus = 0
  /\ Len(commandLine) > 1
  /\ stdout = FormatInt(FLAGS_x) \o Endl

\* C5: the test binary, run with no arguments, eventually exits with status
\* 0, with exactly one assertion passed and none failed.
C5_TestBinaryPasses ==
  (program = "function-test")
    ~> (tpc = "exited" /\ texit = 0 /\ passed = 1 /\ failed = 0)

C5_Witness ==
  /\ program = "function-test" /\ tpc = "exited"
  /\ texit = 0 /\ passed = 1 /\ failed = 0

\* C6: the test binary exits with what RUN_ALL_TESTS() returned: status 0
\* exactly when fn() == 100 held, a nonzero status when it failed.
C6_ExitReflectsAssertion ==
  (program = "function-test" /\ tpc = "exited")
  => /\ texit = runResult
     /\ (texit = 0 <=> actual = 100)
     /\ (actual # 100 => texit \notin {0, NoStatus})

C6_Witness ==
  /\ program = "function-test" /\ tpc = "exited"
  /\ actual # 100
  /\ texit = 1

\* C7, as stated: in every run the usage message is set, then the arguments
\* are parsed, then exactly one line is written, then the process exits;
\* nothing is written before the parsing completes and nothing a second time.
C7_EveryRunPrintsOnce ==
  program = "main" =>
    /\ (pc # "start" => usage = "hello")
    /\ (stdout # <<>> => pc \in {"printed", "exited"})
    /\ LineCount(stdout) <= 1
    /\ (pc = "exited" => LineCount(stdout) = 1)

\* C7, amended: the same order in every run, with exactly one line written
\* by the time of exit in the runs where the parsing call returned to main;
\* a run that the flag library ended during parsing, for a flag error, has
\* written nothing.
C7_PrintsOnceWhenParsed ==
  program = "main" =>
    /\ (pc # "start" => usage = "hello")
    /\ (stdout # <<>> => pc \in {"printed", "exited"})
    /\ LineCount(stdout) <= 1
    /\ (pc = "exited" /\ exitStatus = MainStatus => LineCount(stdout) = 1)
    /\ (pc = "exited" /\ exitStatus # MainStatus => stdout = <<>>)

C7_Witness ==
  /\ program = "main" /\ pc = "exited" /\ exitStatus = MainStatus
  /\ usage = "hello"
  /\ Len(commandLine) > 1
  /\ LineCount(stdout) = 1

\* C8: main has no error branch of its own: a failure status is set only by
\* the parsing call, and once that call has returned main prints the current
\* value of x and then exits with status 0.
C8_NoAuthoredErrorHandling ==
  [][ program = "main" =>
        /\ (exitStatus' \notin {NoStatus, 0} /\ exitStatus' # exitStatus
              => pc = "usage")
        /\ (pc = "parsed"
              => /\ stdout' = stdout \o FormatInt(FLAGS_x) \o Endl
                 /\ pc' = "printed"
                 /\ exitStatus' = NoStatus)
        /\ (pc = "printed"
              => pc' = "exited" /\ exitStatus' = 0 /\ stdout' = stdout)
    ]_vars

C8_Witness ==
  /\ program = "main" /\ pc = "exited" /\ exitStatus = 0
  /\ FLAGS_x < 0
  /\ stdout = FormatInt(FLAGS_x) \o Endl

====
